---- MODULE Spec2Model ----
(***************************************************************************)
(* Model of backend/main.py: the /search_summary handler                   *)
(* (search_and_summarize) and the summarizer client (summarize_via_hf).    *)
(*                                                                         *)
(* Python values are tagged records: None, Str(s), Num(n), List(seq),      *)
(* Dict(function from keys to values).  Text is a TLA+ string; slicing,    *)
(* startswith, strip and join are computed on the characters.              *)
(* The search provider, the pages behind the urls and the summarization    *)
(* endpoint are the environment: the provider's answer and every answer    *)
(* of the summarization endpoint are drawn with \E when the call is made;  *)
(* the page behind a url is fixed by the stub web World.                   *)
(***************************************************************************)
EXTENDS Integers, Sequences, FiniteSets, TLC

VARIABLES
    BRAVE_API_KEY,    \* TRUE iff the search credential is set (main.py:16)
    HF_API_TOKEN,     \* TRUE iff the summarization token is set (main.py:17)
    JSON_ERROR_CLASS, \* what the installed requests raises from resp.json() (main.py:4)
    request,          \* the query parameters q, country, ui_lang
    pc,               \* position of search_and_summarize
    response,         \* what requests.get produced (main.py:115)
    items,            \* data.get("web", {}).get("results", [])[:7]
    i,                \* index of the item the loop is at (1-based)
    content_preview,  \* local of the loop body
    results,          \* local list `results`
    url_summaries,    \* local list `url_summaries`
    outcomes,         \* per item: how its summarizer call ended (instrumentation)
    hfpc,             \* position of summarize_via_hf
    text,             \* argument of summarize_via_hf
    attempt,          \* local `attempt` of summarize_via_hf
    ret,              \* value returned / exception raised by summarize_via_hf
    history,          \* endpoint answers seen by the current call (instrumentation)
    sleeps,           \* time.sleep durations of the current call (instrumentation)
    net,              \* network calls made in this run (instrumentation)
    calls,            \* the calls of summarize_via_hf of this run (instrumentation)
    replay,           \* the recording stubs of a repeated request (instrumentation)
    reply             \* the HTTP reply of the handler

vars == <<BRAVE_API_KEY, HF_API_TOKEN, JSON_ERROR_CLASS, request, pc, response,
          items, i, content_preview, results, url_summaries, outcomes, hfpc, text,
          attempt, ret, history, sleeps, net, calls, replay, reply>>

-----------------------------------------------------------------------------
\* Bounds of the model

\* longest provider list drawn with arbitrary items
MaxItems == 2

\* longest provider list drawn at all (must exceed the count of 7)
MaxProvider == 8

\* longest provider list answered to a request that is repeated
RepeatItems == 1

-----------------------------------------------------------------------------
\* Program constants

\* the [:7] of the loop header
Count == 7

\* extracted[:900]
\* a preview twice as long as the summarizer's input may be
DoublePreviewLen == 900 + 900

PreviewLen == 900

\* resp.text[:500]
ErrTextLen == 500

\* str(data)[:1000]
FallbackLen == 1000

\* one retry more than the default
ThreeRetries == 2 + 1

\* default argument max_retries
max_retries == 2

\* default argument backoff (seconds)
backoff == 1

-----------------------------------------------------------------------------
\* Python values

None == [t |-> "None"]

Str(s) == [t |-> "str", v |-> s]

Num(n) == [t |-> "int", v |-> n]

List(xs) == [t |-> "list", v |-> xs]

Dict(f) == [t |-> "dict", v |-> f]

EmptyMap == [k \in {} |-> None]

\* a body that is not valid JSON: resp.json() raises on it
InvalidJson == [t |-> "invalid"]

\* bool(v)
Truthy(v) ==
    CASE v.t = "None" -> FALSE
      [] v.t = "str" -> v.v # ""
      [] v.t = "int" -> v.v # 0
      [] v.t = "list" -> Len(v.v) > 0
      [] v.t = "dict" -> DOMAIN v.v # {}
      [] OTHER -> TRUE

\* s[:n] on a string or a list
Slice(s, n) == IF Len(s) <= n THEN s ELSE SubSeq(s, 1, n)

\* s.startswith(p)
StartsWith(s, p) == Len(s) >= Len(p) /\ SubSeq(s, 1, Len(p)) = p

Whitespace == {" ", "\t", "\n", "\r"}

\* IsBlank without the strip: only the empty string is blank
IsBlankNoStrip(s) == s = ""

\* not s.strip(): s has no character that is not whitespace
IsBlank(s) == \A k \in 1..Len(s) : SubSeq(s, k, k) \in Whitespace

\* " ".join(xs)
RECURSIVE Join(_)
Join(xs) ==
    IF Len(xs) = 0 THEN ""
    ELSE IF Len(xs) = 1 THEN xs[1]
    ELSE xs[1] \o " " \o Join(Tail(xs))

\* d.get(k) / d.get(k, default) on a mapping
Get(d, k, default) == IF k \in DOMAIN d.v THEN d.v[k] ELSE default

\* str(v) as Python prints a parsed JSON value (repr inside containers)
RECURSIVE PyRepr(_)
RECURSIVE PyReprSeq(_)
RECURSIVE PyReprMap(_, _)
PyRepr(v) ==
    CASE v.t = "None" -> "None"
      [] v.t = "str" -> "'" \o v.v \o "'"
      [] v.t = "int" -> ToString(v.v)
      [] v.t = "list" -> "[" \o PyReprSeq(v.v) \o "]"
      [] v.t = "dict" -> "{" \o PyReprMap(v.v, DOMAIN v.v) \o "}"

PyReprSeq(xs) ==
    IF Len(xs) = 0 THEN ""
    ELSE IF Len(xs) = 1 THEN PyRepr(xs[1])
    ELSE PyRepr(xs[1]) \o ", " \o PyReprSeq(Tail(xs))

PyReprMap(f, keys) ==
    IF keys = {} THEN ""
    ELSE LET k == CHOOSE x \in keys : TRUE
             rest == keys \ {k}
         IN "'" \o k \o "': " \o PyRepr(f[k])
            \o (IF rest = {} THEN "" ELSE ", " \o PyReprMap(f, rest))

PyStr(v) == IF v.t = "str" THEN v.v ELSE PyRepr(v)

-----------------------------------------------------------------------------
\* The environment: the stub web, the provider's answers, the endpoint's answers

OkUrl == "http://ok.example"

BlankUrl == "http://blank.example"

DownUrl == "http://down.example"

BlockedUrl == "http://blocked.example"

EmptyUrl == "http://empty.example"

BrokenUrl == "http://broken.example"

Urls == {OkUrl, BlankUrl, DownUrl, BlockedUrl, EmptyUrl, BrokenUrl}

\* a page whose text is longer than the preview
LongUrl == "http://long.example"

RECURSIVE Repeat(_, _)
Repeat(s, n) == IF n = 0 THEN "" ELSE s \o Repeat(s, n - 1)

\* 910 characters
LongText == Repeat("Rust is fast. ", 65)

\* a page: what trafilatura.fetch_url and trafilatura.extract do for a url
\* (raises = TRUE: the call raises with message msg)
Page(fetchRaises, downloaded, extractRaises, extracted, msg) ==
    [fetchRaises |-> fetchRaises, downloaded |-> downloaded,
     extractRaises |-> extractRaises, extracted |-> extracted, msg |-> msg]

World(u) ==
    CASE u = OkUrl -> Page(FALSE, Str("<html>"), FALSE, Str("Rust is fast"), "")
      [] u = BlankUrl -> Page(FALSE, Str("<html>"), FALSE, Str("  "), "")
      [] u = DownUrl -> Page(FALSE, None, FALSE, None, "")
      [] u = BlockedUrl -> Page(TRUE, None, FALSE, None, "timed out")
      [] u = EmptyUrl -> Page(FALSE, Str("<html>"), FALSE, None, "")
      [] u = BrokenUrl -> Page(FALSE, Str("<html>"), TRUE, None, "bad markup")
      [] u = LongUrl -> Page(FALSE, Str("<html>"), FALSE, Str(LongText), "")
      [] OTHER -> Page(FALSE, None, FALSE, None, "")

\* what fetching url_item can do; a missing url (None) either yields nothing
\* or raises inside the extractor
Pages(url_item) ==
    IF url_item.t = "str" THEN {World(url_item.v)}
    ELSE {Page(FALSE, None, FALSE, None, ""), Page(TRUE, None, FALSE, None, "no url")}

\* a provider item for url u
Item(u) ==
    Dict([title |-> Str("About " \o u), url |-> Str(u),
          description |-> Str("Page " \o u)])

\* an item without title and description
SparseItem == Dict([url |-> Str(DownUrl)])

\* an item without url
NoUrlItem == Dict([title |-> Str("No url")])

\* an element of the results list that is not a mapping
NonMappingItem == Str("x")

ItemKinds == {Item(u) : u \in Urls} \cup {SparseItem, NoUrlItem, NonMappingItem}

RECURSIVE SeqsUpTo(_, _)
SeqsUpTo(S, n) ==
    IF n = 0 THEN {<<>>}
    ELSE LET shorter == SeqsUpTo(S, n - 1)
         IN shorter \cup {Append(xs, x) : xs \in {ys \in shorter : Len(ys) = n - 1}, x \in S}

\* every provider list of at most MaxItems items
ShortLists == SeqsUpTo(ItemKinds, MaxItems)

\* three items, extraction succeeds for items 1 and 3 only
ScenarioList == <<Item(OkUrl), Item(EmptyUrl), Item(OkUrl)>>

Fillers == {Item(DownUrl), Item(EmptyUrl)}

\* longer provider lists: one item with content (at position c, none if c = 0)
\* among items without content
LongLists ==
    {[k \in 1..n |-> IF k = c THEN Item(OkUrl) ELSE f] :
        n \in (MaxItems + 1)..MaxProvider, c \in 0..MaxProvider, f \in Fillers}

\* provider lists with the page whose text is longer than the preview
TruncationLists == {<<Item(LongUrl)>>}

ItemLists == ShortLists \cup {ScenarioList} \cup LongLists \cup TruncationLists

\* bodies of a 200 answer of the search provider
WellFormedBodies == {Dict([web |-> Dict([results |-> List(l)])]) : l \in ItemLists}

MalformedBodies ==
    {InvalidJson,                               \* not valid JSON
     List(<<>>),                                \* not a mapping
     Dict(EmptyMap),                            \* 'web' missing
     Dict([web |-> None]),                      \* 'web' null
     Dict([web |-> Str("x")]),                  \* 'web' not a mapping
     Dict([web |-> Dict(EmptyMap)]),            \* 'results' missing
     Dict([web |-> Dict([results |-> None])]),  \* 'results' null
     Dict([web |-> Dict([results |-> Str("ab")])]),      \* 'results' a string
     Dict([web |-> Dict([results |-> Dict(EmptyMap)])])} \* 'results' a mapping

SearchBodies == WellFormedBodies \cup MalformedBodies

HttpResponse(status, txt, body) == [kind |-> "http", status |-> status, text |-> txt, body |-> body]

Raised(class, msg) == [kind |-> "exception", class |-> class, msg |-> msg]

NoResponse == [kind |-> "none"]

SearchResponses ==
    {Raised("ConnectionError", "connection refused")}
    \cup {HttpResponse(s, "denied", Dict(EmptyMap)) : s \in {204, 503}}
    \cup {HttpResponse(200, "", b) : b \in SearchBodies}

SummaryTexts == {"A", "C", "Summary errors are common"}

\* a well-formed summary body: list of one mapping with summary_text
SummaryBody(s) == List(<<Dict([summary_text |-> Str(s)])>>)

HfBodies ==
    {SummaryBody(s) : s \in SummaryTexts}
    \cup {List(<<Str("A")>>),
          Dict([error |-> Str("model loading")]),
          Dict([error |-> Str("model loading"), summary_text |-> Str("A")]),
          Dict([summary_text |-> Str("C")]),
          List(<<>>),
          Dict(EmptyMap),
          List(<<Dict([summary_text |-> Num(5)])>>),   \* a summary that is no string
          List(<<Num(5)>>),                            \* first element neither
          Dict([estimated_time |-> Num(20)]),          \* mapping with neither field
          Num(7),                                      \* a scalar
          Dict([detail |-> Str(LongText \o LongText)]), \* prints longer than the fallback
          InvalidJson}

HfResponses ==
    {Raised("RequestException", "timed out"), Raised("Other", "boom"),
     HttpResponse(429, "slow down", Dict(EmptyMap)),
     HttpResponse(404, "not found", Dict(EmptyMap)),
     HttpResponse(503, LongText, Dict(EmptyMap))}
    \cup {HttpResponse(200, "", b) : b \in HfBodies}

Queries == {"rust vs go"}

\* resp.json() on a body that is not JSON raises JSONDecodeError, which is a
\* RequestException in requests >= 2.27 and a plain ValueError before; the
\* version of requests is not pinned, one of the two is installed
JsonErrorClasses == {"RequestException", "ValueError"}

\* the stubs of a repeated request: in run 1 they record the answer of the
\* search provider (search), the pages fetched (fetch) and the answers of
\* the summarization endpoint (hf), in run 2 they give the recorded answers
\* again; first is the reply of run 1.  run = 0: a single request, nothing
\* is recorded.
NoReplay ==
    [run |-> 0, search |-> NoResponse, fetch |-> <<>>, hf |-> <<>>,
     first |-> [status |-> 0]]

\* the provider's answers to a request that is repeated
RepeatResponses ==
    {r \in SearchResponses :
        (r.kind = "http" /\ r.status = 200 /\ r.body \in WellFormedBodies)
            => Len(r.body.v["web"].v["results"].v) <= RepeatItems}

\* what the search provider can answer now
SearchEnv ==
    CASE replay.run = 2 -> {replay.search}
      [] replay.run = 1 -> RepeatResponses
      [] OTHER -> SearchResponses

\* what the summarization endpoint can answer now
HfEnv ==
    IF replay.run = 2 /\ replay.hf # <<>> THEN {Head(replay.hf)} ELSE HfResponses

\* what fetching url_item can do now
PageEnv(url_item) ==
    IF replay.run = 2 /\ replay.fetch # <<>> THEN {Head(replay.fetch)}
    ELSE Pages(url_item)

\* the stubs after a fetch gave page
FetchRecorded(page) ==
    CASE replay.run = 1 -> [replay EXCEPT !.fetch = Append(@, page)]
      [] replay.run = 2 /\ replay.fetch # <<>> -> [replay EXCEPT !.fetch = Tail(@)]
      [] OTHER -> replay

\* the stubs after the search provider answered r
SearchRecorded(r) ==
    IF replay.run = 1 THEN [replay EXCEPT !.search = r] ELSE replay

\* the stubs after the summarization endpoint answered r
HfRecorded(r) ==
    CASE replay.run = 1 -> [replay EXCEPT !.hf = Append(@, r)]
      [] replay.run = 2 /\ replay.hf # <<>> -> [replay EXCEPT !.hf = Tail(@)]
      [] OTHER -> replay

-----------------------------------------------------------------------------
\* summarize_via_hf

Returned(val, tag) == [kind |-> "return", val |-> val, tag |-> tag]

Raises(msg) == [kind |-> "raise", msg |-> msg]

NoRet == [kind |-> "none"]

\* ClassifyBody testing a mapping for summary_text before error
ClassifyBodySummaryFirst(data) ==
    LET first == data.v[1] IN
    IF data.t = "list" /\ Len(data.v) > 0 /\ first.t = "dict" /\ "summary_text" \in DOMAIN first.v
        THEN [kind |-> "return", val |-> first.v["summary_text"], tag |-> "Ok"]
    ELSE IF data.t = "list" /\ Len(data.v) > 0 /\ first.t = "str"
        THEN [kind |-> "return", val |-> first, tag |-> "Ok"]
    ELSE IF data.t = "dict" /\ "summary_text" \in DOMAIN data.v
        THEN [kind |-> "return", val |-> data.v["summary_text"], tag |-> "Ok"]
    ELSE IF data.t = "dict" /\ "error" \in DOMAIN data.v
        THEN [kind |-> "return", val |-> Str("Summary error: " \o PyStr(data.v["error"])), tag |-> "Error"]
    ELSE [kind |-> "return", val |-> Str(Slice(PyStr(data), FallbackLen)), tag |-> "Ok"]

\* lines 75-87: the classification of the parsed body of a response
ClassifyBody(data) ==
    LET first == data.v[1] IN
    IF data.t = "list" /\ Len(data.v) > 0 /\ first.t = "dict" /\ "summary_text" \in DOMAIN first.v
        THEN Returned(first.v["summary_text"], "Ok")
    ELSE IF data.t = "list" /\ Len(data.v) > 0 /\ first.t = "str"
        THEN Returned(first, "Ok")
    ELSE IF data.t = "dict" /\ "error" \in DOMAIN data.v
        THEN Returned(Str("Summary error: " \o PyStr(data.v["error"])), "Error")
    ELSE IF data.t = "dict" /\ "summary_text" \in DOMAIN data.v
        THEN Returned(data.v["summary_text"], "Ok")
    ELSE Returned(Str(Slice(PyStr(data), FallbackLen)), "Ok")

\* HfEntry without the token test of lines 55-56
HfEntryNoTokenCheck ==
    /\ hfpc = "entry"
    /\ IF text = "" \/ (\A k \in 1..Len(text) : SubSeq(text, k, k) \in Whitespace)
          THEN /\ ret' = Returned(None, "Empty")
               /\ hfpc' = "done"
          ELSE /\ ret' = ret
               /\ hfpc' = "loop"
    /\ attempt' = 0
    /\ UNCHANGED <<BRAVE_API_KEY, HF_API_TOKEN, JSON_ERROR_CLASS, calls, replay, request, pc, response, items, i,
                   content_preview, results, url_summaries, outcomes, text,
                   history, sleeps, net, reply>>

\* lines 54-65: the two early returns, then the loop starts with attempt = 0
HfEntry ==
    /\ hfpc = "entry"
    /\ IF ~HF_API_TOKEN
          THEN /\ ret' = Returned(Str("Summary error: HF_API_TOKEN not configured"), "Error")
               /\ hfpc' = "done"
          ELSE IF text = "" \/ IsBlank(text)
          THEN /\ ret' = Returned(None, "Empty")
               /\ hfpc' = "done"
          ELSE /\ ret' = ret
               /\ hfpc' = "loop"
    /\ attempt' = 0
    /\ UNCHANGED <<BRAVE_API_KEY, HF_API_TOKEN, JSON_ERROR_CLASS, calls, replay, request, pc, response, items, i,
                   content_preview, results, url_summaries, outcomes, text,
                   history, sleeps, net, reply>>

\* HfRetry that gives up instead of going round
HfNoRetry ==
    /\ ret' = [kind |-> "return", val |-> Str("Summary unavailable after retries"), tag |-> "Error"]
    /\ hfpc' = "done"
    /\ UNCHANGED <<attempt, sleeps>>

\* lines 69-72 and 89-92: sleep backoff * (attempt + 1), count the attempt, go round
HfRetry ==
    /\ sleeps' = Append(sleeps, backoff * (attempt + 1))
    /\ attempt' = attempt + 1
    /\ hfpc' = "loop"
    /\ ret' = ret

HfReturn(r) ==
    /\ ret' = r
    /\ hfpc' = "done"
    /\ UNCHANGED <<attempt, sleeps>>

\* lines 88-93: the handler of requests.exceptions.RequestException
HfOnRequestException(msg) ==
    IF attempt < max_retries
       THEN HfRetry
       ELSE HfReturn(Returned(Str("Summary request failed: " \o msg), "Error"))

\* line 69 taking every 5xx for a rate limit too
IsRateLimitedOr5xx(r) == r.status = 429 \/ r.status >= 500

\* line 69
IsRateLimited(r) == r.status = 429

\* line 73
IsErrorStatus(r) == r.status >= 400

\* lines 66-93: one pass of the loop body, the endpoint answering r.
\* resp.json() on a body that is not JSON raises JSON_ERROR_CLASS.
HfAttempt ==
    /\ hfpc = "loop"
    /\ attempt <= max_retries
    /\ \E r \in HfEnv :
        /\ history' = Append(history, r)
        /\ replay' = HfRecorded(r)
        /\ net' = [net EXCEPT !.hf = @ + 1]
        /\ CASE r.kind = "exception" /\ r.class = "RequestException" ->
                    HfOnRequestException(r.msg)
             [] r.kind = "exception" /\ r.class # "RequestException" ->
                    HfReturn(Raises(r.msg))
             [] r.kind = "http" /\ IsRateLimited(r) ->
                    HfRetry
             [] r.kind = "http" /\ ~IsRateLimited(r) /\ IsErrorStatus(r) ->
                    HfReturn(Returned(Str("Summary error (status " \o ToString(r.status)
                                          \o "): " \o Slice(r.text, ErrTextLen)), "Error"))
             [] r.kind = "http" /\ ~IsRateLimited(r) /\ ~IsErrorStatus(r) /\ r.body = InvalidJson ->
                    IF JSON_ERROR_CLASS = "RequestException"
                       THEN HfOnRequestException("Expecting value")
                       ELSE HfReturn(Raises("Expecting value"))
             [] OTHER ->
                    HfReturn(ClassifyBody(r.body))
    /\ UNCHANGED <<BRAVE_API_KEY, HF_API_TOKEN, JSON_ERROR_CLASS, calls, request, pc, response, items, i,
                   content_preview, results, url_summaries, outcomes, text, reply>>

\* line 94: the loop ended because attempt > max_retries
HfGiveUp ==
    /\ hfpc = "loop"
    /\ attempt > max_retries
    /\ ret' = Returned(Str("Summary unavailable after retries"), "Error")
    /\ hfpc' = "done"
    /\ UNCHANGED <<BRAVE_API_KEY, HF_API_TOKEN, JSON_ERROR_CLASS, calls, replay, request, pc, response, items, i,
                   content_preview, results, url_summaries, outcomes, text,
                   attempt, history, sleeps, net, reply>>

-----------------------------------------------------------------------------
\* search_and_summarize

\* raise HTTPException(status_code, detail), or an exception nothing handles
\* (the framework answers 500 Internal Server Error)
Fail(status, detail) ==
    /\ pc' = "failed"
    /\ reply' = [status |-> status, detail |-> detail]

\* Retained without the [:7]
RetainedNoCap(data) ==
    LET bad == [raised |-> TRUE, items |-> <<>>]
        web == Get(data, "web", Dict(EmptyMap))
        res == Get(web, "results", List(<<>>))
    IN  IF data.t # "dict" THEN bad
        ELSE IF web.t # "dict" THEN bad
        ELSE IF res.t = "list" THEN [raised |-> FALSE, items |-> res.v]
        ELSE IF res.t = "str"
            THEN [raised |-> FALSE, items |-> [k \in 1..Len(res.v) |-> Str(SubSeq(res.v, k, k))]]
        ELSE bad

\* line 128: data.get("web", {}).get("results", [])[:7]; raised = TRUE when
\* evaluating it raises (AttributeError, TypeError)
Retained(data) ==
    LET bad == [raised |-> TRUE, items |-> <<>>]
        web == Get(data, "web", Dict(EmptyMap))
        res == Get(web, "results", List(<<>>))
    IN  IF data.t # "dict" THEN bad
        ELSE IF web.t # "dict" THEN bad
        ELSE IF res.t = "list" THEN [raised |-> FALSE, items |-> Slice(res.v, Count)]
        ELSE IF res.t = "str"
            THEN [raised |-> FALSE,
                  items |-> [k \in 1..Len(Slice(res.v, Count)) |-> Str(SubSeq(res.v, k, k))]]
        ELSE bad

\* CheckConfig without the test of the credential
CheckConfigNoGuard ==
    /\ pc = "start"
    /\ pc' = "search"
    /\ UNCHANGED <<BRAVE_API_KEY, HF_API_TOKEN, JSON_ERROR_CLASS, calls, replay, request, response, items, i,
                   content_preview, results, url_summaries, outcomes, hfpc, text,
                   attempt, ret, history, sleeps, net, reply>>

\* lines 103-104
CheckConfig ==
    /\ pc = "start"
    /\ IF ~BRAVE_API_KEY
          THEN Fail(500, "BRAVE_API_KEY not configured")
          ELSE pc' = "search" /\ reply' = reply
    /\ UNCHANGED <<BRAVE_API_KEY, HF_API_TOKEN, JSON_ERROR_CLASS, calls, replay, request, response, items, i,
                   content_preview, results, url_summaries, outcomes, hfpc, text,
                   attempt, ret, history, sleeps, net>>

\* BraveRequest without the status test of lines 120-122
BraveRequestLenient ==
    /\ pc = "search"
    /\ \E r \in SearchEnv :
        /\ response' = r
        /\ replay' = SearchRecorded(r)
        /\ net' = [net EXCEPT !.search = @ + 1]
        /\ IF r.kind = "exception"
              THEN Fail(502, "Brave API request failed: " \o r.msg)
              ELSE pc' = "parse" /\ reply' = reply
    /\ UNCHANGED <<BRAVE_API_KEY, HF_API_TOKEN, JSON_ERROR_CLASS, calls, request, items, i,
                   content_preview, results, url_summaries, outcomes, hfpc, text,
                   attempt, ret, history, sleeps>>

\* lines 106-122: the one call of the search provider
BraveRequest ==
    /\ pc = "search"
    /\ \E r \in SearchEnv :
        /\ response' = r
        /\ replay' = SearchRecorded(r)
        /\ net' = [net EXCEPT !.search = @ + 1]
        /\ IF r.kind = "exception"
              THEN Fail(502, "Brave API request failed: " \o r.msg)
              ELSE IF r.status # 200
              THEN Fail(502, "Brave API: " \o ToString(r.status))
              ELSE pc' = "parse" /\ reply' = reply
    /\ UNCHANGED <<BRAVE_API_KEY, HF_API_TOKEN, JSON_ERROR_CLASS, calls, request, items, i,
                   content_preview, results, url_summaries, outcomes, hfpc, text,
                   attempt, ret, history, sleeps>>

\* ParseResponse with results and url_summaries kept from request to request
\* (module-level lists instead of the locals of lines 125-126)
ParseResponseSharedLists ==
    /\ pc = "parse"
    /\ IF response.body = InvalidJson \/ Retained(response.body).raised
          THEN /\ Fail(500, "Internal Server Error")
               /\ UNCHANGED <<items, i>>
          ELSE /\ items' = Retained(response.body).items
               /\ i' = 1
               /\ pc' = "loop"
               /\ reply' = reply
    /\ UNCHANGED <<results, url_summaries>>
    /\ outcomes' = <<>>
    /\ UNCHANGED <<BRAVE_API_KEY, HF_API_TOKEN, JSON_ERROR_CLASS, calls, replay, request, response,
                   content_preview, hfpc, text,
                   attempt, ret, history, sleeps, net>>

\* lines 124-128: parse the body, start the two lists, evaluate the loop header
ParseResponse ==
    /\ pc = "parse"
    /\ IF response.body = InvalidJson \/ Retained(response.body).raised
          THEN /\ Fail(500, "Internal Server Error")
               /\ UNCHANGED <<items, i>>
          ELSE /\ items' = Retained(response.body).items
               /\ i' = 1
               /\ pc' = "loop"
               /\ reply' = reply
    /\ results' = <<>>
    /\ url_summaries' = <<>>
    /\ UNCHANGED <<BRAVE_API_KEY, HF_API_TOKEN, JSON_ERROR_CLASS, calls, replay, request, response,
                   content_preview, outcomes, hfpc, text,
                   attempt, ret, history, sleeps, net>>

\* lines 146-154 and the step to the next item; outcome records how the
\* summarizer call of the item ended (its SummaryResult tag and value) and
\* whether line 141 appended its summary to url_summaries
AppendResult(cp, summary, outcome) ==
    /\ results' = Append(results,
                         [title |-> Get(items[i], "title", None),
                          url |-> Get(items[i], "url", None),
                          description |-> Get(items[i], "description", None),
                          content_preview |-> cp,
                          summary |-> summary])
    /\ outcomes' = Append(outcomes, outcome)
    /\ i' = i + 1
    /\ pc' = "loop"
    /\ content_preview' = None
    /\ reply' = reply

\* the handler of line 144 recording "no content" instead of the message
ExceptPreviewNone(msg) == None

\* line 144
ExceptPreview(msg) == Str("Error extracting: " \o msg)

NotCalled == [tag |-> "NotCalled", val |-> None, joined |-> FALSE]

\* lines 128-138 (and 142-154 when no summarizer call is made): take the next
\* item, fetch its page and extract the text
ProcessItem ==
    /\ pc = "loop"
    /\ i <= Len(items)
    /\ IF items[i].t # "dict"
          THEN /\ Fail(500, "Internal Server Error")
               /\ UNCHANGED <<i, content_preview, results, outcomes, hfpc, text, net, calls, replay>>
          ELSE \E page \in PageEnv(Get(items[i], "url", None)) :
                /\ net' = [net EXCEPT !.fetch = @ + 1]
                /\ replay' = FetchRecorded(page)
                /\ IF page.fetchRaises \/ (Truthy(page.downloaded) /\ page.extractRaises)
                      THEN /\ AppendResult(ExceptPreview(page.msg), None, NotCalled)
                           /\ UNCHANGED <<hfpc, text, calls>>
                      ELSE IF ~Truthy(page.downloaded) \/ ~Truthy(page.extracted)
                      THEN /\ AppendResult(None, None, NotCalled)
                           /\ UNCHANGED <<hfpc, text, calls>>
                      ELSE /\ content_preview' = Str(Slice(page.extracted.v, PreviewLen))
                           /\ text' = Slice(page.extracted.v, PreviewLen)
                           /\ hfpc' = "entry"
                           /\ calls' = Append(calls, [item |-> i,
                                                      text |-> Slice(page.extracted.v, PreviewLen)])
                           /\ pc' = "summarize"
                           /\ UNCHANGED <<i, results, outcomes, reply>>
    /\ UNCHANGED <<BRAVE_API_KEY, HF_API_TOKEN, JSON_ERROR_CLASS, request, response, items,
                   url_summaries, attempt, ret, history, sleeps>>

\* line 140: the test that lets a summary into url_summaries
Included(summary) ==
    /\ Truthy(summary)
    /\ ~(StartsWith(summary.v, "Summary error") \/ StartsWith(summary.v, "Summary request failed"))

\* the locals of the finished summarizer call are gone
HfForget ==
    /\ hfpc' = "idle"
    /\ text' = ""
    /\ attempt' = 0
    /\ ret' = NoRet
    /\ history' = <<>>
    /\ sleeps' = <<>>

\* line 140: summary.startswith raises AttributeError when the summary is
\* truthy and not a string
FilterRaises(summary) == Truthy(summary) /\ summary.t # "str"

\* lines 139-141 and 146-154: the summarizer returned; when the test of
\* line 140 raises, the handler of lines 142-144 runs with summary assigned
AfterSummarize ==
    /\ pc = "summarize"
    /\ hfpc = "done"
    /\ ret.kind = "return"
    /\ IF FilterRaises(ret.val)
          THEN /\ url_summaries' = url_summaries
               /\ AppendResult(ExceptPreview("'" \o ret.val.t \o "' object has no attribute 'startswith'"),
                               ret.val,
                               [tag |-> ret.tag, val |-> ret.val, joined |-> FALSE])
          ELSE /\ url_summaries' = IF Included(ret.val) THEN Append(url_summaries, ret.val.v)
                                   ELSE url_summaries
               /\ AppendResult(content_preview, ret.val,
                               [tag |-> ret.tag, val |-> ret.val, joined |-> Included(ret.val)])
    /\ HfForget
    /\ UNCHANGED <<BRAVE_API_KEY, HF_API_TOKEN, JSON_ERROR_CLASS, calls, replay, request, response, items, net>>

\* ExceptSummarize without the handler: the exception ends the request
ExceptSummarizeAborts ==
    /\ pc = "summarize"
    /\ hfpc = "done"
    /\ ret.kind = "raise"
    /\ Fail(500, "Internal Server Error")
    /\ UNCHANGED <<BRAVE_API_KEY, HF_API_TOKEN, JSON_ERROR_CLASS, calls, replay, request, response, items, i,
                   content_preview, results, url_summaries, outcomes, hfpc, text,
                   attempt, ret, history, sleeps, net>>

\* lines 142-154: the summarizer raised
ExceptSummarize ==
    /\ pc = "summarize"
    /\ hfpc = "done"
    /\ ret.kind = "raise"
    /\ AppendResult(ExceptPreview(ret.msg), None, [tag |-> "Raised", val |-> None, joined |-> FALSE])
    /\ HfForget
    /\ UNCHANGED <<BRAVE_API_KEY, HF_API_TOKEN, JSON_ERROR_CLASS, calls, replay, request, response, items,
                   url_summaries, net>>

\* lines 156-164
Return ==
    /\ pc = "loop"
    /\ i > Len(items)
    /\ pc' = "done"
    /\ reply' = [status |-> 200,
                 body |-> [query |-> request.q,
                           country |-> request.country,
                           ui_lang |-> request.ui_lang,
                           results |-> results,
                           combined_summary |-> IF url_summaries # <<>>
                                                THEN Str(Join(url_summaries))
                                                ELSE None]]
    /\ UNCHANGED <<BRAVE_API_KEY, HF_API_TOKEN, JSON_ERROR_CLASS, calls, replay, request, response, items, i,
                   content_preview, results, url_summaries, outcomes, hfpc, text,
                   attempt, ret, history, sleeps, net>>

-----------------------------------------------------------------------------
\* One request to /search_summary

Init ==
    /\ BRAVE_API_KEY \in BOOLEAN
    /\ HF_API_TOKEN \in BOOLEAN
    /\ JSON_ERROR_CLASS \in JsonErrorClasses
    /\ request \in [q : Queries, country : {"US"}, ui_lang : {"en-US"}]
    /\ calls = <<>>
    /\ replay = NoReplay
    /\ pc = "start"
    /\ response = NoResponse
    /\ items = <<>>
    /\ i = 1
    /\ content_preview = None
    /\ results = <<>>
    /\ url_summaries = <<>>
    /\ outcomes = <<>>
    /\ hfpc = "idle"
    /\ text = ""
    /\ attempt = 0
    /\ ret = NoRet
    /\ history = <<>>
    /\ sleeps = <<>>
    /\ net = [search |-> 0, fetch |-> 0, hf |-> 0]
    /\ reply = [status |-> 0]

Next ==
    \/ CheckConfig
    \/ BraveRequest
    \/ ParseResponse
    \/ ProcessItem
    \/ HfEntry
    \/ HfAttempt
    \/ HfGiveUp
    \/ AfterSummarize
    \/ ExceptSummarize
    \/ Return

Spec == Init /\ [][Next]_vars

-----------------------------------------------------------------------------
\* The same request made twice against stubs that answer the second run as
\* they answered the first

\* the framework calls the handler again with the same request: the reply of
\* the first run is kept aside; what the first run left in its locals is
\* left where it is, the second run starts at line 103
Restart ==
    /\ replay.run = 1
    /\ pc \in {"done", "failed"}
    /\ replay' = [replay EXCEPT !.run = 2, !.first = reply]
    /\ pc' = "start"
    /\ reply' = [status |-> 0]
    /\ net' = [search |-> 0, fetch |-> 0, hf |-> 0]
    /\ calls' = <<>>
    /\ UNCHANGED <<BRAVE_API_KEY, HF_API_TOKEN, JSON_ERROR_CLASS, request, response, items, i,
                   content_preview, results, url_summaries, outcomes, hfpc, text,
                   attempt, ret, history, sleeps>>

InitRepeat ==
    /\ BRAVE_API_KEY \in BOOLEAN
    /\ HF_API_TOKEN \in BOOLEAN
    /\ JSON_ERROR_CLASS \in JsonErrorClasses
    /\ request \in [q : Queries, country : {"US"}, ui_lang : {"en-US"}]
    /\ calls = <<>>
    /\ replay = [NoReplay EXCEPT !.run = 1]
    /\ pc = "start"
    /\ response = NoResponse
    /\ items = <<>>
    /\ i = 1
    /\ content_preview = None
    /\ results = <<>>
    /\ url_summaries = <<>>
    /\ outcomes = <<>>
    /\ hfpc = "idle"
    /\ text = ""
    /\ attempt = 0
    /\ ret = NoRet
    /\ history = <<>>
    /\ sleeps = <<>>
    /\ net = [search |-> 0, fetch |-> 0, hf |-> 0]
    /\ reply = [status |-> 0]

NextRepeat ==
    \/ CheckConfig
    \/ BraveRequest
    \/ ParseResponse
    \/ ProcessItem
    \/ HfEntry
    \/ HfAttempt
    \/ HfGiveUp
    \/ AfterSummarize
    \/ ExceptSummarize
    \/ Return
    \/ Restart

SpecRepeat == InitRepeat /\ [][NextRepeat]_vars

-----------------------------------------------------------------------------
\* summarize_via_hf called on its own (pc = "direct"), on any text

Texts == {"", "  ", "\t\n", "Rust is fast", " go "}

InitHf ==
    /\ BRAVE_API_KEY \in BOOLEAN
    /\ HF_API_TOKEN \in BOOLEAN
    /\ JSON_ERROR_CLASS \in JsonErrorClasses
    /\ request \in [q : Queries, country : {"US"}, ui_lang : {"en-US"}]
    /\ calls = <<>>
    /\ replay = NoReplay
    /\ pc = "direct"
    /\ response = NoResponse
    /\ items = <<>>
    /\ i = 1
    /\ content_preview = None
    /\ results = <<>>
    /\ url_summaries = <<>>
    /\ outcomes = <<>>
    /\ hfpc = "entry"
    /\ text \in Texts
    /\ attempt = 0
    /\ ret = NoRet
    /\ history = <<>>
    /\ sleeps = <<>>
    /\ net = [search |-> 0, fetch |-> 0, hf |-> 0]
    /\ reply = [status |-> 0]

NextHf ==
    \/ HfEntry
    \/ HfAttempt
    \/ HfGiveUp

SpecHf == InitHf /\ [][NextHf]_vars

\* the call runs to its end: every network call returns or raises within
\* its timeout (line 68) and every sleep ends
SpecHfFair == SpecHf /\ WF_vars(NextHf)

TypeOK ==
    /\ pc \in {"start", "search", "parse", "loop", "summarize", "done", "failed", "direct"}
    /\ hfpc \in {"idle", "entry", "loop", "done"}
    /\ attempt \in 0..(max_retries + 1)
    /\ Len(results) = Len(outcomes)

-----------------------------------------------------------------------------
\* Properties

Min(a, b) == IF a <= b THEN a ELSE b

\* the combined_summary of the reply
Combined == reply.body.combined_summary

\* the texts of the items whose summarizer outcome is Ok, in ranking order
RECURSIVE OkTexts(_)
OkTexts(os) ==
    IF os = <<>> THEN <<>>
    ELSE IF Head(os).tag = "Ok" THEN <<PyStr(Head(os).val)>> \o OkTexts(Tail(os))
    ELSE OkTexts(Tail(os))

\* the search call came back with status 200
SearchSucceeded == response.kind = "http" /\ response.status = 200

\* the list of items the provider returned (empty when there is none)
Provided ==
    LET b == response.body IN
    IF b.t = "dict" /\ "web" \in DOMAIN b.v /\ b.v["web"].t = "dict"
       /\ "results" \in DOMAIN b.v["web"].v /\ b.v["web"].v["results"].t = "list"
    THEN b.v["web"].v["results"].v
    ELSE <<>>

\* C1: exclusion law: the summary of an item whose summarizer outcome is
\* Error or Empty is never appended to the list that combined_summary joins;
\* only Ok outcomes are.
C1_ExclusionLaw ==
    \A j \in 1..Len(outcomes) : outcomes[j].joined => outcomes[j].tag = "Ok"

\* C2: in the reply, combined_summary is the space-joined texts of exactly
\* the items whose summarizer outcome is Ok, in ranking order, and it is None
\* iff there is no such item.
C2_CombinedIsJoinOfOk ==
    pc = "done" =>
        Combined = (IF OkTexts(outcomes) = <<>> THEN None ELSE Str(Join(OkTexts(outcomes))))

\* C3: a successful run returns min(7, number of provider items) results and
\* the k-th result carries title, url and description of the provider's
\* k-th item.
C3_ResultsFollowRanking ==
    pc = "done" =>
        /\ reply.status = 200
        /\ Len(reply.body.results) = Min(7, Len(Provided))
        /\ \A k \in 1..Len(reply.body.results) :
            /\ reply.body.results[k].title = Get(Provided[k], "title", None)
            /\ reply.body.results[k].url = Get(Provided[k], "url", None)
            /\ reply.body.results[k].description = Get(Provided[k], "description", None)

\* C3 witness: the provider returned 8 items, 7 were kept, one was summarized
C3_Witness ==
    /\ pc = "done"
    /\ Len(Provided) = 8
    /\ Len(reply.body.results) = 7
    /\ \E k \in 1..7 : outcomes[k].tag = "Ok"

\* item j yields no content: its page cannot be fetched or has no text
NoContent(j) ==
    \E page \in Pages(Get(items[j], "url", None)) :
        ~page.fetchRaises /\ (~Truthy(page.downloaded) \/ (~page.extractRaises /\ ~Truthy(page.extracted)))

\* the extractor raises on item j
ExtractorRaises(j) ==
    \E page \in Pages(Get(items[j], "url", None)) :
        page.fetchRaises \/ (Truthy(page.downloaded) /\ page.extractRaises)

\* the text the extractor produces for item j
Extracted(j) == World(items[j].v["url"].v).extracted.v

\* what the entry of item j must be, given its own page and the end of its
\* own summarizer call only
Isolated(j) ==
    LET r == results[j]
        o == outcomes[j]
    IN  CASE o.tag = "NotCalled" ->
                /\ r.summary = None
                /\ \/ NoContent(j) /\ r.content_preview = None
                   \/ ExtractorRaises(j) /\ r.content_preview # None
          [] o.tag = "Raised" ->
                /\ r.summary = None
                /\ r.content_preview # None
          [] OTHER ->
                /\ r.summary = o.val
                /\ IF o.val.t \in {"None", "str"}
                      THEN r.content_preview = Str(Slice(Extracted(j), 900))
                      ELSE r.content_preview # None

\* C4: isolation: once the search call has succeeded, a failure of
\* extraction or summarization never aborts the request (the request fails
\* only on a malformed body or an item that is not a mapping), a completed
\* run has one entry per retained item, and every entry depends on the
\* page and the summarizer call of its own item only.
C4_Isolation ==
    /\ (pc = "failed" /\ SearchSucceeded) =>
            \/ response.body = InvalidJson
            \/ Retained(response.body).raised
            \/ (i <= Len(items) /\ items[i].t # "dict")
    /\ pc = "done" => Len(results) = Len(items)
    /\ pc \in {"loop", "summarize", "done"} =>
            /\ Len(results) = i - 1
            /\ \A j \in 1..Len(results) : Isolated(j)

\* C4 witness: a run completed although the summarizer raised on item 1,
\* and item 2 was summarized
C4_Witness ==
    /\ pc = "done"
    /\ Len(results) = 2
    /\ outcomes[1].tag = "Raised"
    /\ outcomes[2].tag = "Ok" /\ results[2].summary = Str("A")

Is429(r) == r.kind = "http" /\ r.status = 429

\* k answers 429
TooMany(k) == [j \in 1..k |-> HttpResponse(429, "slow down", Dict(EmptyMap))]

\* C5: retry law: the endpoint answering 429 k times (k in 0..2) and then
\* 200 with a well-formed summary makes summarize_via_hf return that summary
\* as Ok after exactly k + 1 network attempts: the call does not give up
\* while only 429s fewer than 3 were seen, and returns on the 200.
C5_RetryLaw ==
    /\ (hfpc = "done" /\ history # <<>> /\ \A j \in 1..Len(history) : Is429(history[j]))
            => Len(history) = 3
    /\ \A k \in 0..2 : \A s \in SummaryTexts :
            history = TooMany(k) \o <<HttpResponse(200, "", SummaryBody(s))>>
                => /\ hfpc = "done"
                   /\ ret = Returned(Str(s), "Ok")
                   /\ net.hf = k + 1

\* C5 witness: 429, 429, 200 gave Ok after 3 attempts
C5_Witness ==
    /\ hfpc = "done"
    /\ history = TooMany(2) \o <<HttpResponse(200, "", SummaryBody("A"))>>
    /\ ret = Returned(Str("A"), "Ok")
    /\ net.hf = 3

\* C6 as stated: whether the token is set or not, empty or whitespace-only
\* input returns Empty (None) with zero network calls.
C6_BlankIsEmptyAlways ==
    (hfpc = "done" /\ IsBlank(text)) => (ret = Returned(None, "Empty") /\ net.hf = 0)

\* C6 amended: empty or whitespace-only input never reaches the network;
\* it returns Empty (None) when the token is set, and the 'not configured'
\* error when the token is missing.
C6_BlankNoNetwork ==
    (hfpc # "entry" /\ \A k \in 1..Len(text) : SubSeq(text, k, k) \in {" ", "\t", "\n", "\r"}) =>
        /\ hfpc = "done"
        /\ net.hf = 0
        /\ history = <<>>
        /\ HF_API_TOKEN => ret = Returned(None, "Empty")
        /\ ~HF_API_TOKEN => ret = Returned(Str("Summary error: HF_API_TOKEN not configured"), "Error")

\* C6 witness: whitespace-only input returned Empty with the token set
C6_Witness ==
    /\ hfpc = "done"
    /\ text = "\t\n"
    /\ HF_API_TOKEN
    /\ ret = Returned(None, "Empty")
    /\ net.hf = 0

NotConfigured == Str("Summary error: HF_API_TOKEN not configured")

\* C7: with the token missing every call of summarize_via_hf returns the
\* 'not configured' error without a network attempt or a sleep; the error is
\* the item's summary and never enters combined_summary.
C7_NotConfigured ==
    ~HF_API_TOKEN =>
        /\ hfpc = "done" => ret = Returned(NotConfigured, "Error")
        /\ net.hf = 0 /\ history = <<>> /\ sleeps = <<>>
        /\ \A j \in 1..Len(outcomes) :
              outcomes[j].tag # "NotCalled" =>
                  /\ outcomes[j].tag = "Error"
                  /\ results[j].summary = NotConfigured
                  /\ ~outcomes[j].joined
        /\ url_summaries = <<>>
        /\ pc = "done" => Combined = None

\* C7 witness: a run without token completed with a 'not configured' summary
C7_Witness ==
    /\ ~HF_API_TOKEN
    /\ pc = "done"
    /\ \E j \in 1..Len(results) : results[j].summary = NotConfigured
    /\ Combined = None

NoNetwork == net = [search |-> 0, fetch |-> 0, hf |-> 0]

\* C8: without search credential the request fails with status 500 before
\* any network call.
C8_NoCredentialFailsFast ==
    ~BRAVE_API_KEY =>
        /\ pc \in {"start", "failed"}
        /\ NoNetwork
        /\ pc = "failed" => (reply.status = 500 /\ "body" \notin DOMAIN reply)

\* C8 witness: the request failed for the missing credential
C8_Witness == ~BRAVE_API_KEY /\ pc = "failed" /\ reply.status = 500

\* the search call raised or answered a status other than 200
SearchFailed ==
    \/ response.kind = "exception"
    \/ response.kind = "http" /\ response.status # 200

\* C9: a search call that raises or answers non-200 ends the request with
\* status 502 after that single search attempt: no page is fetched, no
\* summarization is requested, no result is returned.
C9_SearchFailureAborts ==
    SearchFailed =>
        /\ pc = "failed"
        /\ reply.status = 502
        /\ "body" \notin DOMAIN reply
        /\ net = [search |-> 1, fetch |-> 0, hf |-> 0]
        /\ results = <<>>
        /\ hfpc = "idle"

\* C9 witness: the provider answered 503 and the request failed with 502
C9_Witness ==
    /\ response.kind = "http" /\ response.status = 503
    /\ pc = "failed"
    /\ reply.status = 502

\* C10: a 200 answer of the provider whose result list is absent or
\* malformed does not fail the request: the reply has no results and no
\* combined_summary.
C10_MalformedIsEmpty ==
    (SearchSucceeded /\ response.body \in MalformedBodies) =>
        /\ pc # "failed"
        /\ pc = "done" => (reply.body.results = <<>> /\ Combined = None)


\* the text the extractor produces for the page of item j, None when the
\* fetch or the extraction fails
ProducedText(j) ==
    LET u == Get(items[j], "url", None)
        page == World(u.v)
    IN  IF u.t = "str" /\ ~page.fetchRaises /\ Truthy(page.downloaded)
           /\ ~page.extractRaises /\ Truthy(page.extracted)
        THEN page.extracted
        ELSE None

\* an exception was raised inside the per-item block of item j after the
\* extraction: by the summarizer call, or by the test of line 140
BlockRaised(j) ==
    \/ outcomes[j].tag = "Raised"
    \/ outcomes[j].val.t \notin {"None", "str"}

\* C11: whenever fetch or extraction of an item fails (nothing fetched,
\* nothing extracted, or an exception inside the per-item block) the item's
\* content_preview is None, never an error message.
C11_FailureIsNoContent ==
    \A j \in 1..Len(results) :
        (ProducedText(j) = None \/ BlockRaised(j)) => results[j].content_preview = None

\* C12: in every reply each content_preview is None or a string of at most
\* 900 characters that is a prefix of the text extracted from the item's page.
C12_PreviewIsPrefix ==
    pc = "done" =>
        \A j \in 1..Len(reply.body.results) :
            LET cp == reply.body.results[j].content_preview IN
            \/ cp = None
            \/ /\ cp.t = "str"
               /\ Len(cp.v) <= 900
               /\ ProducedText(j) # None
               /\ StartsWith(ProducedText(j).v, cp.v)

\* C13: in every entry of results the summary is present only if the
\* content_preview is present and not empty, also when an exception was
\* raised after the summary had been assigned.
C13_SummaryNeedsPreview ==
    /\ \A j \in 1..Len(results) :
          results[j].summary # None =>
              (results[j].content_preview # None /\ results[j].content_preview.v # "")
    /\ pc = "done" => reply.body.results = results

\* C13 witness: a reply with an entry whose summary (a number) had been
\* assigned when line 140 raised
C13_Witness ==
    /\ pc = "done"
    /\ \E j \in 1..Len(results) :
          /\ results[j].summary = Num(5)
          /\ StartsWith(results[j].content_preview.v, "Error extracting")


\* the endpoint answered r with a 429, or the request failed in transport
Transient(r) ==
    \/ r.kind = "http" /\ r.status = 429
    \/ r.kind = "exception" /\ r.class = "RequestException"

\* the endpoint answered r with a status >= 400 other than 429
IsOtherError(r) == r.kind = "http" /\ r.status >= 400 /\ r.status # 429

\* the endpoint answered r with a 2xx status
Is2xx(r) == r.kind = "http" /\ r.status >= 200 /\ r.status < 300

\* C15: one call of summarize_via_hf ends after at most 3 network attempts,
\* whatever the endpoint answers; 429s and transport failures count on the
\* same attempt counter; three 429s give 'unavailable after retries'.
C15_BoundedAttempts ==
    /\ [](/\ Len(history) <= 3
          /\ net.hf <= 3
          /\ hfpc = "loop" => attempt = Len(history)
          /\ (hfpc = "done" /\ Len(history) = 3 /\ \A k \in 1..3 : Is429(history[k]))
                => ret = [kind |-> "return", val |-> Str("Summary unavailable after retries"),
                          tag |-> "Error"])
    /\ <>(hfpc = "done")

\* C15 witness: a 429, a transport failure and a 429 used up the 3 attempts
C15_Witness ==
    /\ hfpc = "done"
    /\ Len(history) = 3
    /\ Is429(history[1]) /\ history[2].kind = "exception" /\ Is429(history[3])
    /\ ret.val = Str("Summary unavailable after retries")

\* C16: a status >= 400 other than 429 ends the call at once with an Error:
\* it is the last answer of the call and no sleep follows it.
C16_ErrorStatusReturnsAtOnce ==
    \A k \in 1..Len(history) :
        IsOtherError(history[k]) =>
            /\ k = Len(history)
            /\ hfpc = "done"
            /\ ret.kind = "return" /\ ret.tag = "Error"
            /\ ret.val = Str("Summary error (status " \o ToString(history[k].status) \o "): "
                             \o Slice(history[k].text, 500))
            /\ Len(sleeps) = k - 1

\* C16 witness: a 429 then a 503, with attempts left
C16_Witness ==
    /\ hfpc = "done"
    /\ Len(history) = 2
    /\ Is429(history[1])
    /\ history[2].kind = "http" /\ history[2].status = 503
    /\ sleeps = <<1>>

\* C17: every backoff sleep of a call is followed by another network
\* attempt: a call that has ended slept once less than it tried, and a 429
\* on the last allowed attempt gives 'unavailable after retries' unslept.
C17_SleepOnlyBeforeRetry ==
    (hfpc = "done" /\ history # <<>>) => Len(sleeps) = Len(history) - 1

\* the number of answers of h that are 429s or transport failures
RECURSIVE CountTransient(_)
CountTransient(h) ==
    IF h = <<>> THEN 0
    ELSE (IF Transient(Head(h)) THEN 1 ELSE 0) + CountTransient(Tail(h))

\* C18: 429s and transport failures are handled alike as far as sleeping
\* and retrying go: the sleeps of a call are those of the transport-failure
\* path (backoff * (a + 1) for every such answer on an attempt a < 2) and
\* depend on the number of such answers only, not on their kinds.
C18_SleepsIgnoreKind ==
    (hfpc = "done" /\ \A k \in 1..Len(history) : history[k].kind = "http" => history[k].body # InvalidJson) =>
        sleeps = [k \in 1..Min(CountTransient(history), 2) |-> k]

\* the classification of a parsed 2xx body by the rules of the claim
RefClassify(data) ==
    LET IsSummaryMap(x) == x.t = "dict" /\ "summary_text" \in DOMAIN x.v
        NonEmptyList == data.t = "list" /\ data.v # <<>>
    IN  CASE NonEmptyList /\ IsSummaryMap(data.v[1]) ->
                [tag |-> "Ok", val |-> data.v[1].v["summary_text"]]
          [] NonEmptyList /\ ~IsSummaryMap(data.v[1]) /\ data.v[1].t = "str" ->
                [tag |-> "Ok", val |-> data.v[1]]
          [] data.t = "dict" /\ "error" \in DOMAIN data.v ->
                [tag |-> "Error", val |-> Str("Summary error: " \o PyStr(data.v["error"]))]
          [] data.t = "dict" /\ "error" \notin DOMAIN data.v /\ "summary_text" \in DOMAIN data.v ->
                [tag |-> "Ok", val |-> data.v["summary_text"]]
          [] OTHER ->
                [tag |-> "Ok", val |-> Str(Slice(PyStr(data), 1000))]

\* C19 as stated: every 2xx answer ends the call (never a retry) and, when
\* its body parses, the result is the classification of the body.
C19_Every2xxReturns ==
    \A k \in 1..Len(history) :
        Is2xx(history[k]) =>
            /\ k = Len(history)
            /\ hfpc = "done"
            /\ history[k].body # InvalidJson =>
                  (ret.kind = "return" /\ [tag |-> ret.tag, val |-> ret.val] = RefClassify(history[k].body))

\* C19 amended: a 2xx answer whose body parses as JSON ends the call with
\* the classification of the body, and is never retried or slept on.
C19_Parsed2xxReturns ==
    \A k \in 1..Len(history) :
        (Is2xx(history[k]) /\ history[k].body # InvalidJson) =>
            /\ k = Len(history)
            /\ hfpc = "done"
            /\ ret.kind = "return"
            /\ [tag |-> ret.tag, val |-> ret.val] = RefClassify(history[k].body)
            /\ Len(sleeps) = k - 1

\* C19 witness: a mapping with both an error and a summary field is an Error
C19_Witness ==
    /\ hfpc = "done"
    /\ history = <<HttpResponse(200, "", Dict([error |-> Str("model loading"), summary_text |-> Str("A")]))>>
    /\ ret.tag = "Error"
    /\ ret.val = Str("Summary error: model loading")


\* C20: the summarizer is called at most once per retained item and in
\* ranking order, only for items whose page gave non-empty text, always with
\* the first 900 characters of that text (the item's content_preview) as its
\* input; an item without content has no call, no attempt and no sleep.
C20_SummarizerCalls ==
    /\ \A c \in 1..Len(calls) :
            LET j == calls[c].item
            IN  /\ j \in 1..Len(items)
                /\ ProducedText(j) # None
                /\ calls[c].text = Slice(ProducedText(j).v, 900)
                /\ Len(calls[c].text) <= 900
                /\ calls[c].text # ""
                /\ (j <= Len(results) /\ ~BlockRaised(j))
                        => results[j].content_preview = Str(calls[c].text)
    /\ \A c, d \in 1..Len(calls) : c < d => calls[c].item < calls[d].item
    /\ hfpc # "idle" =>
            /\ pc = "summarize"
            /\ calls # <<>>
            /\ calls[Len(calls)] = [item |-> i, text |-> text]
            /\ content_preview = Str(text)
    /\ pc # "summarize" => (hfpc = "idle" /\ history = <<>> /\ sleeps = <<>>)
    /\ \A j \in 1..Len(results) :
            ProducedText(j) = None =>
                /\ \A c \in 1..Len(calls) : calls[c].item # j
                /\ outcomes[j] = NotCalled
                /\ results[j].summary = None
    /\ net.hf <= (2 + 1) * Len(calls)

\* a page of more than 900 characters was summarized from its first 900
C20_Witness ==
    /\ pc = "done"
    /\ Len(calls) = 1
    /\ calls[1].item = 1
    /\ Len(ProducedText(1).v) > 900
    /\ Len(calls[1].text) = 900
    /\ results[1].summary = Str("A")


====
